---- MODULE Spec2Model ----
(***************************************************************************)
(* Model of client_load.py: the load-test dispatcher (run_load_test with   *)
(* its ThreadPoolExecutor workers running send_plan_request) and the       *)
(* statistics printer (print_statistics).                                  *)
(*                                                                         *)
(* Time is the value of time.perf_counter(), counted in whole clock        *)
(* ticks; one tick is one second, so a latency of d ticks is d*1000 ms.    *)
(***************************************************************************)
EXTENDS Integers, Sequences, FiniteSets, TLC

\* ---------------------------------------------------------------- bounds
MaxN == 2          \* largest num_requests of a modelled run
MaxC == 2          \* largest max_concurrent of a modelled run
MaxTime == 1       \* the clock stops ticking at this value

\* ------------------------------------------------------ program constants
ProgressEvery == 100     \* completed % 100 == 0
MsPerSecond == 1000      \* (perf_counter() - start) * 1000

\* grpc.RpcError instances the stub can raise (status codes)
RpcErrors == {"DEADLINE_EXCEEDED", "UNAVAILABLE"}

\* A Python str is modelled as a prefix of a named text: [text, len] is the
\* first len characters of text.  The empty string is the default error="".
EmptyStr == [text |-> "", len |-> 0]

\* number of characters of str(e) for each modelled error: one description
\* shorter than the 100 characters print_statistics keeps, one longer
ErrorTextLen(e) == IF e = "UNAVAILABLE" THEN 60 ELSE 180

\* str(e) of a grpc.RpcError: the whole, non-empty description of the status
StrOfError(e) == [text |-> e, len |-> ErrorTextLen(e)]

\* s[:k]
Slice(s, k) == [text |-> s.text, len |-> IF s.len < k THEN s.len ELSE k]

\* @dataclass LatencyResult(success, latency_ms, error="")
LatencyResult(s, l, e) == [success |-> s, latency_ms |-> l, error |-> e]

\* a future that holds no result yet
NoResult == [success |-> FALSE, latency_ms |-> -1, error |-> EmptyStr]

\* Future: state, the result set by set_result, the exception set by
\* set_exception ("none" when the call returned normally), the number of
\* futures of the run that finished before this one (-1: not finished), and
\* whether finishing it told the waiter of as_completed
NewFuture ==
    [state |-> "NONE", result |-> NoResult, exception |-> "none",
     rank |-> -1, notified |-> FALSE]

VARIABLES
    num_requests,    \* argument N of run_load_test
    max_concurrent,  \* argument C of run_load_test
    pc,              \* position of the main thread
    now,             \* time.perf_counter()
    start_time,      \* local start_time of run_load_test
    total_time,      \* local total_time of run_load_test (-1: not yet set)
    channel,         \* "none" | "open" | "closed"
    closes,          \* number of channel.close() calls
    submitted,       \* loop variable i of the submitting comprehension
    futures,         \* index -> Future: the futures dict, keyed by its value i
    work_queue,      \* executor._work_queue: indices not yet taken
    idle_semaphore,  \* executor._idle_semaphore
    shutdown,        \* executor._shutdown
    threads,         \* executor._threads: one [st, item, start] per worker
    ac_finished,     \* as_completed: futures found finished at its start
    ac_waiter,       \* as_completed: waiter.finished_futures, FIFO
    collected,       \* indices of the futures yielded so far, in order
    results,         \* the results list
    completed,       \* the completed counter
    progress,        \* number of "Progress:" lines printed
    calls,           \* index -> number of stub.Plan calls with robot_id=index
    rng_draws,       \* number of draws made on the module-level np.random
    report           \* what print_statistics has printed

vars == <<num_requests, max_concurrent, pc, now, start_time, total_time,
          channel, closes, submitted, futures, work_queue, idle_semaphore,
          shutdown, threads, ac_finished, ac_waiter, collected, results,
          completed, progress, calls, rng_draws, report>>

Indices == 0 .. (num_requests - 1)
Workers == DOMAIN threads


\* a worker thread blocked on work_queue.get()
IdleThread == [st |-> "idle", item |-> -1, start |-> -1]

\* number of worker threads created so far: len(executor._threads)
NumThreads == Len(threads)

\* workers whose stub.Plan call has been issued and has not returned/failed
InFlight == {w \in Workers : threads[w].st = "busy"}

\* A real number is kept as the exact fraction <<numerator, denominator>>;
\* <<0, 0>> stands for a value that was not printed.
NoValue == << 0, 0 >>

\* what print_statistics prints when nothing has been printed yet
BlankReport ==
    [printed |-> TRUE, fault |-> "none", total |-> -1, successful |-> -1,
     failed |-> -1, success_pct |-> NoValue, failed_pct |-> NoValue,
     total_time |-> -1, throughput |-> NoValue, has_latency |-> FALSE,
     min |-> -1, max |-> -1, mean |-> NoValue, median |-> NoValue,
     has_stdev |-> FALSE, stdev_squared |-> NoValue,
     p50 |-> -1, p90 |-> -1, p95 |-> -1, p99 |-> -1,
     has_errors |-> FALSE, errors |-> << >>]

\* the report before print_statistics is called
NoReport == [BlankReport EXCEPT !.printed = FALSE]

\* ------------------------------------------------------------------ Init
Init ==
    /\ num_requests \in 0 .. MaxN
    /\ max_concurrent \in 1 .. MaxC
    /\ pc = "start"
    /\ now = 0
    /\ start_time = -1
    /\ total_time = -1
    /\ channel = "none"
    /\ closes = 0
    /\ submitted = 0
    /\ futures = [i \in 0 .. (num_requests - 1) |-> NewFuture]
    /\ work_queue = << >>
    /\ idle_semaphore = 0
    /\ shutdown = FALSE
    /\ threads = << >>
    /\ ac_finished = {}
    /\ ac_waiter = << >>
    /\ collected = << >>
    /\ results = << >>
    /\ completed = 0
    /\ progress = 0
    /\ calls = [i \in 0 .. (num_requests - 1) |-> 0]
    /\ rng_draws = 0
    /\ report = NoReport

\* ------------------------------------------------------------ the clock
\* time.perf_counter() advances between any two steps of the run
Tick ==
    /\ pc \in {"start", "submit", "collect", "shutdown", "unwinding", "joined"}
    /\ now < MaxTime
    /\ now' = now + 1
    /\ UNCHANGED <<num_requests, max_concurrent, pc, start_time, total_time,
                   channel, closes, submitted, futures, work_queue,
                   idle_semaphore, shutdown, threads, ac_finished, ac_waiter,
                   collected, results, completed, progress, calls, rng_draws,
                   report>>

\* ------------------------------------------------------- run_load_test
\* lines 76-85: open the channel, create the empty results list, take the
\* start timestamp; line 87 creates the executor (no thread yet)
Start ==
    /\ pc = "start"
    /\ channel' = "open"
    /\ results' = << >>
    /\ start_time' = now
    /\ pc' = "submit"
    /\ UNCHANGED <<num_requests, max_concurrent, now, total_time, closes,
                   submitted, futures, work_queue, idle_semaphore, shutdown,
                   threads, ac_finished, ac_waiter, collected, completed,
                   progress, calls, rng_draws, report>>

\* variant: a thread is started for every submit that finds no idle worker
AdjustThreadCount_Unbounded(sem, thr) ==
    IF sem > 0
    THEN [sem |-> sem - 1, thr |-> thr]
    ELSE [sem |-> sem, thr |-> Append(thr, IdleThread)]

\* executor._adjust_thread_count(): reuse an idle worker if the semaphore
\* can be taken, else start a thread while fewer than max_workers exist
AdjustThreadCount(sem, thr) ==
    IF sem > 0
    THEN [sem |-> sem - 1, thr |-> thr]
    ELSE IF Len(thr) < max_concurrent
         THEN [sem |-> sem, thr |-> Append(thr, IdleThread)]
         ELSE [sem |-> sem, thr |-> thr]

\* lines 88-91, one iteration: executor.submit(send_plan_request, stub, i)
Submit ==
    /\ pc = "submit"
    /\ submitted < num_requests
    /\ LET i == submitted
           adj == AdjustThreadCount(idle_semaphore, threads)
       IN  /\ futures' = [futures EXCEPT ![i].state = "PENDING"]
           /\ work_queue' = Append(work_queue, i)
           /\ idle_semaphore' = adj.sem
           /\ threads' = adj.thr
           /\ submitted' = i + 1
    /\ UNCHANGED <<num_requests, max_concurrent, pc, now, start_time,
                   total_time, channel, closes, shutdown, ac_finished,
                   ac_waiter, collected, results, completed, progress, calls,
                   rng_draws, report>>

\* lines 91-94: range(num_requests) is exhausted, completed = 0, and
\* as_completed(futures) starts: it splits the futures into the ones
\* already finished and the ones it installs its waiter on
AsCompletedStart ==
    /\ pc = "submit"
    /\ submitted = num_requests
    /\ completed' = 0
    /\ ac_finished' = {i \in Indices : futures[i].state = "FINISHED"}
    /\ ac_waiter' = << >>
    /\ pc' = "collect"
    /\ UNCHANGED <<num_requests, max_concurrent, now, start_time, total_time,
                   channel, closes, submitted, futures, work_queue,
                   idle_semaphore, shutdown, threads, collected, results,
                   progress, calls, rng_draws, report>>

\* the future as_completed yields next: any of the initially finished ones
\* (a set, iterated in no particular order), then the waiter's list in order
NextYield ==
    IF ac_finished # {} THEN ac_finished
    ELSE IF ac_waiter # << >> THEN {Head(ac_waiter)}
    ELSE {}

\* variant: the progress test is made before the counter is incremented
Collect_TestsBeforeIncrement ==
    /\ pc = "collect"
    /\ \E i \in NextYield :
          /\ ac_finished' = ac_finished \ {i}
          /\ ac_waiter' = IF ac_finished # {} THEN ac_waiter ELSE Tail(ac_waiter)
          /\ collected' = Append(collected, i)
          /\ results' = Append(results, futures[i].result)
    /\ completed' = completed + 1
    /\ progress' = IF completed % ProgressEvery = 0 THEN progress + 1 ELSE progress
    /\ UNCHANGED <<num_requests, max_concurrent, pc, now, start_time,
                   total_time, channel, closes, submitted, futures,
                   work_queue, idle_semaphore, shutdown, threads, calls,
                   rng_draws, report>>

\* lines 94-100, one iteration of the collection loop
\* future.result() re-raises the exception of the future, if it holds one:
\* the exception leaves the loop and the with block, whose exit shuts the
\* executor down before the exception leaves run_load_test
Collect ==
    /\ pc = "collect"
    /\ \E i \in NextYield :
          /\ ac_finished' = ac_finished \ {i}
          /\ ac_waiter' = IF ac_finished # {} THEN ac_waiter ELSE Tail(ac_waiter)
          /\ collected' = Append(collected, i)
          /\ IF futures[i].exception = "none"
             THEN /\ results' = Append(results, futures[i].result)
                  /\ completed' = completed + 1
                  /\ progress' = IF (completed + 1) % ProgressEvery = 0
                                 THEN progress + 1 ELSE progress
                  /\ UNCHANGED <<pc, shutdown>>
             ELSE /\ pc' = "unwinding"
                  /\ shutdown' = TRUE
                  /\ UNCHANGED <<results, completed, progress>>
    /\ UNCHANGED <<num_requests, max_concurrent, now, start_time,
                   total_time, channel, closes, submitted, futures,
                   work_queue, idle_semaphore, threads, calls,
                   rng_draws, report>>

\* variant: the loop ends as soon as no finished future is at hand
LoopEnd_Early ==
    /\ pc = "collect"
    /\ ac_finished = {}
    /\ ac_waiter = << >>
    /\ shutdown' = TRUE
    /\ pc' = "shutdown"
    /\ UNCHANGED <<num_requests, max_concurrent, now, start_time, total_time,
                   channel, closes, submitted, futures, work_queue,
                   idle_semaphore, threads, ac_finished, ac_waiter, collected,
                   results, completed, progress, calls, rng_draws, report>>

\* line 94 -> 101: as_completed has yielded every future; the with block
\* exits and executor.shutdown(wait=True) raises the shutdown flag
LoopEnd ==
    /\ pc = "collect"
    /\ Len(collected) = num_requests
    /\ shutdown' = TRUE
    /\ pc' = "shutdown"
    /\ UNCHANGED <<num_requests, max_concurrent, now, start_time, total_time,
                   channel, closes, submitted, futures, work_queue,
                   idle_semaphore, threads, ac_finished, ac_waiter, collected,
                   results, completed, progress, calls, rng_draws, report>>

\* variant: shutdown(wait=False), the with block is left without joining
Join_NoWait ==
    /\ pc \in {"shutdown", "unwinding"}
    /\ pc' = IF pc = "shutdown" THEN "joined" ELSE "raised"
    /\ UNCHANGED <<num_requests, max_concurrent, now, start_time, total_time,
                   channel, closes, submitted, futures, work_queue,
                   idle_semaphore, shutdown, threads, ac_finished, ac_waiter,
                   collected, results, completed, progress, calls, rng_draws,
                   report>>

\* executor.shutdown(wait=True): t.join() for every worker thread; then
\* the with block is left, normally or by the exception that ended the loop
Join ==
    /\ pc \in {"shutdown", "unwinding"}
    /\ \A w \in Workers : threads[w].st = "exited"
    /\ pc' = IF pc = "shutdown" THEN "joined" ELSE "raised"
    /\ UNCHANGED <<num_requests, max_concurrent, now, start_time, total_time,
                   channel, closes, submitted, futures, work_queue,
                   idle_semaphore, shutdown, threads, ac_finished, ac_waiter,
                   collected, results, completed, progress, calls, rng_draws,
                   report>>

\* lines 102-105: total_time, channel.close(), return results, total_time
CloseAndReturn ==
    /\ pc = "joined"
    /\ total_time' = now - start_time
    /\ channel' = "closed"
    /\ closes' = closes + 1
    /\ pc' = "returned"
    /\ UNCHANGED <<num_requests, max_concurrent, now, start_time, submitted,
                   futures, work_queue, idle_semaphore, shutdown, threads,
                   ac_finished, ac_waiter, collected, results, completed,
                   progress, calls, rng_draws, report>>

\* ------------------------------------------- workers: send_plan_request
\* a worker takes the next work item and runs send_plan_request up to the
\* stub.Plan call: lines 56-57 build the observation and the request,
\* line 59 takes the start timestamp, line 61 issues the call
TakeAndCall(w) ==
    /\ w \in Workers
    /\ threads[w].st = "idle"
    /\ work_queue # << >>
    /\ LET i == Head(work_queue)
       IN  /\ work_queue' = Tail(work_queue)
           /\ futures' = [futures EXCEPT ![i].state = "RUNNING"]
           /\ rng_draws' = rng_draws + 1
           /\ calls' = [calls EXCEPT ![i] = @ + 1]
           /\ threads' = [threads EXCEPT ![w] = [st |-> "busy", item |-> i, start |-> now]]
    /\ UNCHANGED <<num_requests, max_concurrent, pc, now, start_time,
                   total_time, channel, closes, submitted, idle_semaphore,
                   shutdown, ac_finished, ac_waiter, collected, results,
                   completed, progress, report>>

\* the future of a call that ended now, with result r or exception e
Finished(r, e) ==
    [state |-> "FINISHED", result |-> r, exception |-> e,
     rank |-> Cardinality({j \in Indices : futures[j].state = "FINISHED"}),
     notified |-> (pc = "collect")]

\* variant: the result is set but the waiter of as_completed is not told
SetResult_NoNotify(w, r) ==
    LET i == threads[w].item
    IN  /\ futures' = [futures EXCEPT ![i] = Finished(r, "none")]
        /\ ac_waiter' = ac_waiter
        /\ idle_semaphore' = idle_semaphore + 1
        /\ threads' = [threads EXCEPT ![w] = IdleThread]

\* variant: the waiter's list gets the newest finished future in front
SetResult_Prepend(w, r) ==
    LET i == threads[w].item
    IN  /\ futures' = [futures EXCEPT ![i] = Finished(r, "none")]
        /\ ac_waiter' = IF pc = "collect" THEN << i >> \o ac_waiter ELSE ac_waiter
        /\ idle_semaphore' = idle_semaphore + 1
        /\ threads' = [threads EXCEPT ![w] = IdleThread]

\* future.set_result(r) for index i by worker w, the waiter of as_completed
\* being told when it is installed; then the worker releases the semaphore
SetResult(w, r) ==
    LET i == threads[w].item
    IN  /\ futures' = [futures EXCEPT ![i] = Finished(r, "none")]
        /\ ac_waiter' = IF pc = "collect" THEN Append(ac_waiter, i) ELSE ac_waiter
        /\ idle_semaphore' = idle_semaphore + 1
        /\ threads' = [threads EXCEPT ![w] = IdleThread]

\* variant: the worker also appends its outcome to the results list itself
PlanReturns_Appends(w) ==
    /\ w \in Workers
    /\ threads[w].st = "busy"
    /\ SetResult(w, LatencyResult(TRUE, (now - threads[w].start) * MsPerSecond, EmptyStr))
    /\ results' = Append(results, LatencyResult(TRUE, (now - threads[w].start) * MsPerSecond, EmptyStr))
    /\ UNCHANGED <<num_requests, max_concurrent, pc, now, start_time,
                   total_time, channel, closes, submitted, work_queue,
                   shutdown, ac_finished, collected, completed,
                   progress, calls, rng_draws, report>>

\* lines 61-63: stub.Plan returns a response
PlanReturns(w) ==
    /\ w \in Workers
    /\ threads[w].st = "busy"
    /\ SetResult(w, LatencyResult(TRUE, (now - threads[w].start) * MsPerSecond, EmptyStr))
    /\ UNCHANGED <<num_requests, max_concurrent, pc, now, start_time,
                   total_time, channel, closes, submitted, work_queue,
                   shutdown, ac_finished, collected, results, completed,
                   progress, calls, rng_draws, report>>

\* variant: a failed call is issued again instead of being recorded
PlanFails_Retry(w) ==
    /\ w \in Workers
    /\ threads[w].st = "busy"
    /\ calls[threads[w].item] < 2
    /\ calls' = [calls EXCEPT ![threads[w].item] = @ + 1]
    /\ threads' = [threads EXCEPT ![w].start = now]
    /\ UNCHANGED <<num_requests, max_concurrent, pc, now, start_time,
                   total_time, channel, closes, submitted, futures,
                   work_queue, idle_semaphore, shutdown, ac_finished,
                   ac_waiter, collected, results, completed, progress,
                   rng_draws, report>>

\* variant: the RpcError is not caught, the future gets it as its exception
PlanFails_Uncaught(w) ==
    /\ w \in Workers
    /\ threads[w].st = "busy"
    /\ \E e \in RpcErrors :
          futures' = [futures EXCEPT ![threads[w].item] = Finished(NoResult, e)]
    /\ ac_waiter' = IF pc = "collect" THEN Append(ac_waiter, threads[w].item) ELSE ac_waiter
    /\ idle_semaphore' = idle_semaphore + 1
    /\ threads' = [threads EXCEPT ![w] = IdleThread]
    /\ UNCHANGED <<num_requests, max_concurrent, pc, now, start_time,
                   total_time, channel, closes, submitted, work_queue,
                   shutdown, ac_finished, collected, results, completed,
                   progress, calls, rng_draws, report>>

\* lines 64-66: stub.Plan raises grpc.RpcError e
PlanFails(w) ==
    /\ w \in Workers
    /\ threads[w].st = "busy"
    /\ \E e \in RpcErrors :
          SetResult(w, LatencyResult(FALSE, (now - threads[w].start) * MsPerSecond, StrOfError(e)))
    /\ UNCHANGED <<num_requests, max_concurrent, pc, now, start_time,
                   total_time, channel, closes, submitted, work_queue,
                   shutdown, ac_finished, collected, results, completed,
                   progress, calls, rng_draws, report>>

\* a worker leaves its loop once the executor is shut down and the queue
\* is empty
WorkerExit(w) ==
    /\ w \in Workers
    /\ threads[w].st = "idle"
    /\ shutdown
    /\ work_queue = << >>
    /\ threads' = [threads EXCEPT ![w].st = "exited"]
    /\ UNCHANGED <<num_requests, max_concurrent, pc, now, start_time,
                   total_time, channel, closes, submitted, futures,
                   work_queue, idle_semaphore, shutdown, ac_finished,
                   ac_waiter, collected, results, completed, progress, calls,
                   rng_draws, report>>

\* -------------------------------------------------- print_statistics
\* variant: the successes are not filtered out of the results
Successful_All(res) == res

\* [r for r in results if r.success]
Successful(res) == SelectSeq(res, LAMBDA r : r.success)

\* variant: the failures are not filtered out of the results
Failed_All(res) == res

\* [r for r in results if not r.success]
Failed(res) == SelectSeq(res, LAMBDA r : ~r.success)

\* [r.latency_ms for r in successful]
LatenciesOf(succ) == [k \in 1 .. Len(succ) |-> succ[k].latency_ms]

\* insert x into the ascending sequence s, after the elements equal to it
RECURSIVE Insert(_, _)
Insert(s, x) ==
    IF s = << >> THEN << x >>
    ELSE IF x < Head(s) THEN << x >> \o s
    ELSE << Head(s) >> \o Insert(Tail(s), x)

\* variant: the list is left in the order of the results
Sort_None(s) == s

\* latencies.sort(): the ascending, stable sort of a list
RECURSIVE Sort(_)
Sort(s) == IF s = << >> THEN << >> ELSE Insert(Sort(SubSeq(s, 1, Len(s) - 1)), s[Len(s)])

\* min(latencies)
RECURSIVE MinOf(_)
MinOf(s) ==
    IF Len(s) = 1 THEN s[1]
    ELSE LET m == MinOf(Tail(s)) IN IF m < s[1] THEN m ELSE s[1]

\* max(latencies)
RECURSIVE MaxOf(_)
MaxOf(s) ==
    IF Len(s) = 1 THEN s[1]
    ELSE LET m == MaxOf(Tail(s)) IN IF m > s[1] THEN m ELSE s[1]

RECURSIVE SumOf(_)
SumOf(s) == IF s = << >> THEN 0 ELSE s[1] + SumOf(Tail(s))

RECURSIVE SumSqOf(_)
SumSqOf(s) == IF s = << >> THEN 0 ELSE s[1] * s[1] + SumSqOf(Tail(s))

\* statistics.mean(latencies)
Mean(s) == << SumOf(s), Len(s) >>

\* statistics.median(latencies): the middle element, or the average of the
\* two middle elements of an even-sized list
Median(s) ==
    LET n == Len(s)
        i == n \div 2
    IN  IF n % 2 = 1 THEN << s[i + 1], 1 >> ELSE << s[i] + s[i + 1], 2 >>

\* statistics.stdev(latencies): the square root of the sample variance
\* sum((x - mean)^2) / (n - 1); the fraction is the variance
StdevSquared(s) ==
    LET n == Len(s)
    IN  << n * SumSqOf(s) - SumOf(s) * SumOf(s), n * (n - 1) >>

\* variant: the product is rounded to the nearest integer
PercentileIndex_Round(n, p) == (n * p + 50) \div 100

\* int(len(latencies) * p/100) for the literals 0.50, 0.90, 0.95 and 0.99:
\* the double product truncated to an integer, which is floor(n*p/100) for
\* every n up to 2,000,000 (the four literals were compared exhaustively)
PercentileIndex(n, p) == (n * p) \div 100

\* latencies[idx] with a 0-based idx: the element, or -1 for an IndexError
Subscript(s, idx) == IF idx >= 0 /\ idx < Len(s) THEN s[idx + 1] ELSE -1

\* min(p99_idx, len(latencies)-1)
Clamp(idx, n) == IF idx < n - 1 THEN idx ELSE n - 1

\* failed[:5]
SampleSize == 5
\* r.error[:100]
ErrorChars == 100

\* for r in failed[:5]: print(r.error[:100])
ErrorSample(failed) ==
    [k \in 1 .. (IF Len(failed) < SampleSize THEN Len(failed) ELSE SampleSize)
        |-> Slice(failed[k].error, ErrorChars)]

\* lines 117-121: the counts, the percentages, the time and the throughput;
\* a division by len(results) = 0 or by total_time = 0 raises
\* ZeroDivisionError and ends the function there
CountsPart(res, tt) ==
    LET total == Len(res)
        ns == Len(Successful(res))
        nf == Len(Failed(res))
        l117 == [BlankReport EXCEPT !.total = total]
        l119 == [l117 EXCEPT !.successful = ns, !.failed = nf,
                             !.success_pct = << 100 * ns, total >>,
                             !.failed_pct = << 100 * nf, total >>]
        l120 == [l119 EXCEPT !.total_time = tt]
    IN  IF total = 0 THEN [l117 EXCEPT !.fault = "ZeroDivisionError"]
        ELSE IF tt = 0 THEN [l120 EXCEPT !.fault = "ZeroDivisionError"]
        ELSE [l120 EXCEPT !.throughput = << total, tt >>]

\* lines 123-144: the latency section of a result list with a success
LatencyPart(rep, res) ==
    LET latencies == Sort(LatenciesOf(Successful(res)))
        n == Len(latencies)
        p50_idx == PercentileIndex(n, 50)
        p90_idx == PercentileIndex(n, 90)
        p95_idx == PercentileIndex(n, 95)
        p99_idx == PercentileIndex(n, 99)
        l132 == [rep EXCEPT !.has_latency = TRUE,
                            !.min = MinOf(latencies),
                            !.max = MaxOf(latencies),
                            !.mean = Mean(latencies),
                            !.median = Median(latencies),
                            !.has_stdev = (n > 1),
                            !.stdev_squared = IF n > 1 THEN StdevSquared(latencies) ELSE NoValue]
        l141 == [l132 EXCEPT !.p50 = Subscript(latencies, p50_idx)]
        l142 == [l141 EXCEPT !.p90 = Subscript(latencies, p90_idx)]
        l143 == [l142 EXCEPT !.p95 = Subscript(latencies, p95_idx)]
        l144 == [l143 EXCEPT !.p99 = Subscript(latencies, Clamp(p99_idx, n))]
    IN  IF p50_idx >= n THEN [l132 EXCEPT !.fault = "IndexError"]
        ELSE IF p90_idx >= n THEN [l141 EXCEPT !.fault = "IndexError"]
        ELSE IF p95_idx >= n THEN [l142 EXCEPT !.fault = "IndexError"]
        ELSE l144

\* lines 146-149: the sample of error messages
ErrorPart(rep, res) ==
    IF Failed(res) # << >>
    THEN [rep EXCEPT !.has_errors = TRUE, !.errors = ErrorSample(Failed(res))]
    ELSE rep

\* print_statistics(results, total_time): everything it prints, and the
\* exception that ended it, if any
Statistics(res, tt) ==
    LET counts == CountsPart(res, tt)
        lat == IF Successful(res) # << >> THEN LatencyPart(counts, res) ELSE counts
    IN  IF counts.fault # "none" THEN counts
        ELSE IF lat.fault # "none" THEN lat
        ELSE ErrorPart(lat, res)

\* insert outcome r into a list of outcomes ordered by latency
RECURSIVE InsertByLatency(_, _)
InsertByLatency(s, r) ==
    IF s = << >> THEN << r >>
    ELSE IF r.latency_ms < Head(s).latency_ms THEN << r >> \o s
    ELSE << Head(s) >> \o InsertByLatency(Tail(s), r)

RECURSIVE SortByLatency(_)
SortByLatency(s) ==
    IF s = << >> THEN << >>
    ELSE InsertByLatency(SortByLatency(SubSeq(s, 1, Len(s) - 1)), s[Len(s)])

\* variant: the results list itself is sorted by latency, in place
PrintStatistics_SortsResults ==
    /\ pc = "returned"
    /\ results' = SortByLatency(results)
    /\ report' = Statistics(SortByLatency(results), total_time)
    /\ pc' = IF Statistics(results, total_time).fault = "none" THEN "done" ELSE "fault"
    /\ UNCHANGED <<num_requests, max_concurrent, now, start_time, total_time,
                   channel, closes, submitted, futures, work_queue,
                   idle_semaphore, shutdown, threads, ac_finished, ac_waiter,
                   collected, completed, progress, calls, rng_draws>>

\* main, lines 160-167: print_statistics on what run_load_test returned
PrintStatistics ==
    /\ pc = "returned"
    /\ report' = Statistics(results, total_time)
    /\ pc' = IF Statistics(results, total_time).fault = "none" THEN "done" ELSE "fault"
    /\ UNCHANGED <<num_requests, max_concurrent, now, start_time, total_time,
                   channel, closes, submitted, futures, work_queue,
                   idle_semaphore, shutdown, threads, ac_finished, ac_waiter,
                   collected, results, completed, progress, calls, rng_draws>>

\* print_statistics called once more on the same results and total_time
PrintStatisticsAgain ==
    /\ pc \in {"done", "fault"}
    /\ report' = Statistics(results, total_time)
    /\ pc' = IF Statistics(results, total_time).fault = "none" THEN "done_again" ELSE "fault_again"
    /\ UNCHANGED <<num_requests, max_concurrent, now, start_time, total_time,
                   channel, closes, submitted, futures, work_queue,
                   idle_semaphore, shutdown, threads, ac_finished, ac_waiter,
                   collected, results, completed, progress, calls, rng_draws>>

Dispatch ==
    \/ Start
    \/ Submit
    \/ AsCompletedStart
    \/ Collect
    \/ LoopEnd
    \/ Join
    \/ CloseAndReturn

Work ==
    \/ \E w \in Workers : TakeAndCall(w)
    \/ \E w \in Workers : PlanReturns(w)
    \/ \E w \in Workers : PlanFails(w)
    \/ \E w \in Workers : WorkerExit(w)

Next ==
    \/ Tick
    \/ Dispatch
    \/ Work
    \/ PrintStatistics

Spec == Init /\ [][Next]_vars

\* ---------------------------------------------------- fair scheduling
\* The main thread and every worker thread keep running while they can
\* take a step, and every issued stub.Plan call returns or fails (at the
\* latest by its timeout of 10 seconds).
Fairness ==
    /\ WF_vars(Dispatch)
    /\ \A w \in 1 .. MaxC : WF_vars(TakeAndCall(w) \/ WorkerExit(w))
    /\ \A w \in 1 .. MaxC : WF_vars(PlanReturns(w) \/ PlanFails(w))

FairSpec == Init /\ [][Next]_vars /\ Fairness

\* ---------------------------------- print_statistics on given arguments
MaxLen == 4        \* longest enumerated results list
MaxRamp == 26      \* longest all-successful results list

\* latencies a run of the model can measure
SampleLatencies == {d * MsPerSecond : d \in 0 .. MaxTime}

SampleOutcomes ==
    {LatencyResult(TRUE, l, EmptyStr) : l \in SampleLatencies}
    \cup {LatencyResult(FALSE, l, StrOfError(e)) : l \in SampleLatencies, e \in RpcErrors}

\* n successes with the latencies n, n-1, .., 1 ms, in this order
Ramp(n) == [k \in 1 .. n |-> LatencyResult(TRUE, n + 1 - k, EmptyStr)]

MaxMixed == 10     \* longest results list of mostly failed calls

\* n outcomes of which every fourth is a success, the failures alternating
\* between the two errors; outcome k took k ms
Mixed(n) ==
    [k \in 1 .. n |->
        IF k % 4 = 0 THEN LatencyResult(TRUE, k, EmptyStr)
        ELSE LatencyResult(FALSE, k, StrOfError(IF k % 2 = 0 THEN "UNAVAILABLE"
                                                ELSE "DEADLINE_EXCEEDED"))]

SampleResults ==
    UNION {[1 .. k -> SampleOutcomes] : k \in 0 .. MaxLen}
    \cup {Ramp(n) : n \in 1 .. MaxRamp}
    \cup {Mixed(n) : n \in 1 .. MaxMixed}

\* run_load_test has returned the drawn results and total_time: the state
\* of a run with one worker whose futures were collected in submission order
StatsInit ==
    /\ results \in SampleResults
    /\ total_time \in 0 .. MaxTime
    /\ num_requests = Len(results)
    /\ max_concurrent = 1
    /\ pc = "returned"
    /\ now = total_time
    /\ start_time = 0
    /\ channel = "closed"
    /\ closes = 1
    /\ submitted = num_requests
    /\ futures = [i \in 0 .. (num_requests - 1) |->
                    [state |-> "FINISHED", result |-> results[i + 1], exception |-> "none",
                     rank |-> i, notified |-> TRUE]]
    /\ work_queue = << >>
    /\ idle_semaphore = num_requests
    /\ shutdown = TRUE
    /\ threads = IF num_requests = 0 THEN << >>
                 ELSE << [st |-> "exited", item |-> -1, start |-> -1] >>
    /\ ac_finished = {}
    /\ ac_waiter = << >>
    /\ collected = [k \in 1 .. num_requests |-> k - 1]
    /\ completed = num_requests
    /\ progress = num_requests \div ProgressEvery
    /\ calls = [i \in 0 .. (num_requests - 1) |-> 1]
    /\ rng_draws = num_requests
    /\ report = NoReport

StatsNext ==
    \/ PrintStatistics
    \/ PrintStatisticsAgain

StatsSpec == StatsInit /\ [][StatsNext]_vars

\* ------------------------------------------------------------ properties
\* run_load_test has returned to main
Returned == pc \in {"returned", "done", "fault"}

\* print_statistics has ended, by returning or by an exception
Summarized == pc \in {"done", "fault"}

\* the requests whose stub.Plan call is issued and has not returned or failed
RunningRequests == {i \in Indices : futures[i].state = "RUNNING"}

\* the requests that ended in a failure
FailedRequests ==
    {i \in Indices : futures[i].state = "FINISHED" /\ ~futures[i].result.success}

\* the positions of index i among the collected futures
PositionsOf(i) == {k \in 1 .. Len(collected) : collected[k] = i}

\* C1: when run_load_test has returned, the results list holds exactly
\* num_requests outcomes, whatever the mix of successes and failures.
C1_ExactlyNResults == Returned => Len(results) = num_requests

C1_Witness ==
    /\ pc = "returned"
    /\ num_requests >= 2
    /\ \E k \in 1 .. Len(results) : results[k].success
    /\ \E k \in 1 .. Len(results) : ~results[k].success

\* C2: at every moment at most max_concurrent calls are in flight and at
\* most max_concurrent worker threads exist.
C2_BoundedConcurrency ==
    /\ Cardinality(RunningRequests) <= max_concurrent
    /\ Cardinality(InFlight) <= max_concurrent
    /\ NumThreads <= max_concurrent

\* the pool is full and a submitted request waits in the queue
C2_Witness ==
    /\ Cardinality(RunningRequests) = max_concurrent
    /\ NumThreads = max_concurrent
    /\ work_queue # << >>

\* C3: the client is called at most once per index at any time and exactly
\* once by the time the run returns; every index gets exactly one outcome,
\* which is the result of its one call.
C3_ExactlyOnce ==
    /\ \A i \in Indices : calls[i] <= 1 /\ Cardinality(PositionsOf(i)) <= 1
    /\ \A k \in 1 .. Len(results) : results[k] = futures[collected[k]].result
    /\ Returned => /\ Len(results) = Len(collected)
                   /\ \A i \in Indices : calls[i] = 1 /\ Cardinality(PositionsOf(i)) = 1

C3_Witness ==
    /\ pc = "returned"
    /\ num_requests >= 2
    /\ collected[1] # 0
    /\ FailedRequests # {}

\* C4: a failed call becomes an outcome with success = false and a
\* non-empty error message; no exception leaves run_load_test, and once a
\* call has failed the run still returns with an outcome for every index.
C4_FailureIsRecorded ==
    /\ pc \notin {"unwinding", "raised"}
    /\ \A i \in Indices :
          futures[i].state = "FINISHED" =>
             /\ futures[i].exception = "none"
             /\ futures[i].result.latency_ms >= 0
             /\ ~futures[i].result.success => futures[i].result.error.len > 0
    /\ (Returned /\ FailedRequests # {}) =>
          \A i \in Indices : futures[i].state = "FINISHED" /\ PositionsOf(i) # {}

C4_Witness ==
    /\ pc = "returned"
    /\ FailedRequests # {}
    /\ \E i \in Indices : futures[i].state = "FINISHED" /\ futures[i].result.success
    /\ \E k \in 1 .. Len(results) : ~results[k].success /\ results[k].error.len > 0

\* the channel is closed with nothing left to do
QuietAtClose ==
    /\ closes = 1
    /\ RunningRequests = {}
    /\ InFlight = {}
    /\ work_queue = << >>
    /\ \A i \in Indices : futures[i].state = "FINISHED"
    /\ \A w \in Workers : threads[w].st = "exited"

\* C5: the channel is closed at most once, and exactly once when the run
\* has returned; when it is closed every worker has finished, no call is in
\* flight and no request is pending; no call is issued after the close.
C5_ClosedOnceAfterWorkers ==
    /\ [](closes <= 1)
    /\ [](Returned => closes = 1)
    /\ [](channel = "closed" => QuietAtClose)
    /\ [][channel = "closed" => (calls' = calls /\ closes' = closes)]_vars

C5_Witness ==
    /\ channel = "closed"
    /\ num_requests >= 2
    /\ NumThreads >= 2

\* C6: under fair scheduling and with calls that end, every run returns;
\* it has not returned while a future is still uncollected.
C6_EventuallyReturns ==
    /\ <>(pc = "returned")
    /\ [](Returned => (completed = num_requests /\ \A i \in Indices : PositionsOf(i) # {}))

C6_Witness ==
    /\ pc = "returned"
    /\ num_requests = MaxN
    /\ completed = num_requests

\* C7: summarizing results without a success, the empty list included, ends
\* without an exception and prints no latency section.
C7_NoFaultWithoutSuccess ==
    (Summarized /\ Successful(results) = << >>) =>
        (report.fault = "none" /\ ~report.has_latency)

\* C8: summarizing results with total_time = 0 ends without an exception,
\* and with total_time > 0 the throughput is len(results) / total_time.
C8_ThroughputGuarded ==
    (Summarized /\ Len(results) > 0) =>
        /\ total_time = 0 => report.fault = "none"
        /\ total_time > 0 => report.throughput = << Len(results), total_time >>

\* the latencies of the successful outcomes, in the order of the results
SuccessLatencies == LatenciesOf(Successful(results))

\* v is the element at 0-based position k of the ascending arrangement of s
IsAtRank(s, v, k) ==
    /\ \E j \in 1 .. Len(s) : s[j] = v
    /\ Cardinality({j \in 1 .. Len(s) : s[j] < v}) <= k
    /\ k < Cardinality({j \in 1 .. Len(s) : s[j] <= v})

\* min(floor(n*p/100), n-1)
NearestRank(n, p) == IF (n * p) \div 100 < n - 1 THEN (n * p) \div 100 ELSE n - 1

\* the percentiles were printed
PercentilesReported == Summarized /\ report.fault = "none" /\ report.has_latency

\* C9: with n >= 1 successes no percentile lookup is out of range, and each
\* printed percentile p is the element at position min(floor(n*p/100), n-1)
\* of the ascending successful latencies.
C9_PercentileIsNearestRank ==
    LET n == Len(SuccessLatencies)
    IN  /\ (Summarized /\ n >= 1) => report.fault # "IndexError"
        /\ (Summarized /\ n >= 1 /\ total_time > 0) => PercentilesReported
        /\ PercentilesReported =>
              /\ IsAtRank(SuccessLatencies, report.p50, NearestRank(n, 50))
              /\ IsAtRank(SuccessLatencies, report.p90, NearestRank(n, 90))
              /\ IsAtRank(SuccessLatencies, report.p95, NearestRank(n, 95))
              /\ IsAtRank(SuccessLatencies, report.p99, NearestRank(n, 99))

\* the latencies 1..10 give p50 = 6, p90 = 10 and p99 = 10
C9_Witness ==
    /\ PercentilesReported
    /\ Len(SuccessLatencies) = 10
    /\ \A v \in 1 .. 10 : \E j \in 1 .. 10 : SuccessLatencies[j] = v
    /\ report.p50 = 6
    /\ report.p90 = 10
    /\ report.p99 = 10

\* C10: the printed percentiles are ordered, p50 <= p90 <= p95 <= p99.
C10_PercentilesMonotone ==
    PercentilesReported =>
        (report.p50 <= report.p90 /\ report.p90 <= report.p95 /\ report.p95 <= report.p99)

C10_Witness ==
    /\ PercentilesReported
    /\ report.p50 < report.p90
    /\ report.p90 < report.p95
    /\ report.p95 < report.p99

\* the counts were printed (lines 118-119 were reached)
CountsReported == Summarized /\ report.successful >= 0

\* C11: the printed total is the number of outcomes, and the printed success
\* and failure counts add up to it.
C11_CountsAddUp ==
    /\ Summarized => report.total = Len(results)
    /\ (Summarized /\ Len(results) > 0) => CountsReported
    /\ CountsReported => report.successful + report.failed = report.total

C11_Witness ==
    /\ CountsReported
    /\ report.successful >= 1
    /\ report.failed >= 1

Swapped(res, i, j) ==
    [k \in 1 .. Len(res) |-> IF k = i THEN res[j] ELSE IF k = j THEN res[i] ELSE res[k]]

\* res in the opposite order
Reversed(res) == [k \in 1 .. Len(res) |-> res[Len(res) + 1 - k]]

\* rearrangements of res: every exchange of two outcomes, and the reversal
Rearranged(res) ==
    {Swapped(res, i, j) : i, j \in 1 .. Len(res)} \cup {Reversed(res)}

\* the numbers of a report: everything but the sample of error messages
NumericStats(rep) ==
    << rep.fault, rep.total, rep.successful, rep.failed, rep.success_pct,
       rep.failed_pct, rep.throughput, rep.has_latency, rep.min, rep.max,
       rep.mean, rep.median, rep.has_stdev, rep.stdev_squared,
       rep.p50, rep.p90, rep.p95, rep.p99 >>

\* C13: the numbers printed for the results are the numbers printed for any
\* rearrangement of them with the same total_time.
C13_OrderIndependent ==
    Summarized =>
        \A q \in Rearranged(results) :
            NumericStats(Statistics(q, total_time)) = NumericStats(report)

\* results with successes out of ascending order and a failure among them
C13_Witness ==
    /\ Summarized
    /\ report.fault = "none"
    /\ report.has_stdev
    /\ report.has_errors
    /\ report.min < report.max
    /\ \E k \in 1 .. (Len(SuccessLatencies) - 1) :
          SuccessLatencies[k] > SuccessLatencies[k + 1]

\* C14: with exactly one success the summary ends without an exception and
\* prints the latency section with the standard deviation marked
\* unavailable; a standard deviation is printed only for 2 or more successes.
C14_SingleSuccessNoStdev ==
    /\ (Summarized /\ Len(SuccessLatencies) = 1) =>
          (report.fault = "none" /\ report.has_latency /\ ~report.has_stdev)
    /\ (Summarized /\ report.has_stdev) => Len(SuccessLatencies) >= 2

\* what does hold of line 132: whenever the latency section is printed, the
\* standard deviation is printed exactly for 2 or more successes
StdevGuardWhenPrinted ==
    (Summarized /\ report.has_latency) =>
        /\ report.has_stdev <=> (Len(SuccessLatencies) >= 2)
        /\ report.has_stdev <=> (report.stdev_squared # NoValue)
        /\ report.fault = "none"

\* C15: building the payload of a request changes no state shared between
\* the workers: the module-level random generator is left as it was by
\* every step of a run.
C15_GeneratorTouchesNoSharedState == [][rng_draws' = rng_draws]_vars

\* the position of index i among the collected futures (0: not collected)
PositionOf(i) == IF PositionsOf(i) = {} THEN 0 ELSE CHOOSE k \in PositionsOf(i) : TRUE

\* the call of a ended before the call of b ended
FinishedBefore(a, b) ==
    /\ futures[a].state = "FINISHED"
    /\ futures[b].state = "FINISHED"
    /\ futures[a].rank < futures[b].rank

MaxProgressN == 200    \* largest num_requests of a long run

\* the request counts of the long runs, around the multiples of 100
ProgressRuns == {0, 1, 99, 100, 101, MaxProgressN}

\* A run with one worker at the start of its collection loop: the main
\* thread has submitted every request and started as_completed before the
\* worker has taken its first work item.
ProgressInit ==
    /\ num_requests \in ProgressRuns
    /\ max_concurrent = 1
    /\ pc = "collect"
    /\ now = 0
    /\ start_time = 0
    /\ total_time = -1
    /\ channel = "open"
    /\ closes = 0
    /\ submitted = num_requests
    /\ futures = [i \in 0 .. (num_requests - 1) |-> [NewFuture EXCEPT !.state = "PENDING"]]
    /\ work_queue = [k \in 1 .. num_requests |-> k - 1]
    /\ idle_semaphore = 0
    /\ shutdown = FALSE
    /\ threads = IF num_requests = 0 THEN << >> ELSE << IdleThread >>
    /\ ac_finished = {}
    /\ ac_waiter = << >>
    /\ collected = << >>
    /\ results = << >>
    /\ completed = 0
    /\ progress = 0
    /\ calls = [i \in 0 .. (num_requests - 1) |-> 0]
    /\ rng_draws = 0
    /\ report = NoReport

\* the stub of the long runs answers the requests with an even robot_id
ScriptedReturn(w) ==
    /\ w \in Workers
    /\ threads[w].item % 2 = 0
    /\ PlanReturns(w)

\* and raises UNAVAILABLE for the requests with an odd robot_id
ScriptedFail(w) ==
    /\ w \in Workers
    /\ threads[w].item % 2 = 1
    /\ PlanFails(w)
    /\ futures'[threads[w].item].result.error = StrOfError("UNAVAILABLE")

ProgressNext ==
    \/ Collect
    \/ LoopEnd
    \/ Join
    \/ CloseAndReturn
    \/ \E w \in Workers : TakeAndCall(w)
    \/ \E w \in Workers : ScriptedReturn(w)
    \/ \E w \in Workers : ScriptedFail(w)
    \/ \E w \in Workers : WorkerExit(w)

ProgressSpec == ProgressInit /\ [][ProgressNext]_vars

\* C17: the number of progress lines printed is always the number of whole
\* hundreds of collected outcomes, so a returned run of N requests has
\* printed floor(N/100) of them; each one is printed by the step that
\* collects outcome number 100*k, as the k-th line.
C17_ProgressEvery100 ==
    /\ [](progress = Len(results) \div 100)
    /\ [](Returned => progress = num_requests \div 100)
    /\ [](pc \notin {"unwinding", "raised"})
    /\ [][(progress' # progress) =>
            (progress' = progress + 1 /\ Len(results') = 100 * progress'
             /\ Len(results') = Len(results) + 1)]_vars

C17_Witness ==
    /\ pc = "returned"
    /\ num_requests >= 200
    /\ progress = 2
    /\ \E k \in 1 .. Len(results) : ~results[k].success

\* the positions of the failed outcomes in the results list
FailedPositions == {k \in 1 .. Len(results) : ~results[k].success}

\* the position of the j-th failed outcome of the results list
NthFailed(j) ==
    CHOOSE k \in FailedPositions :
        Cardinality({h \in FailedPositions : h < k}) = j - 1

\* the sample is the first min(5, failures) failed outcomes, in the order of
\* the results list, each message cut to its first 100 characters
SampleAsClaimed ==
    /\ report.has_errors <=> (FailedPositions # {})
    /\ Len(report.errors) =
          (IF Cardinality(FailedPositions) < 5 THEN Cardinality(FailedPositions) ELSE 5)
    /\ \A j \in 1 .. Len(report.errors) :
          /\ report.errors[j].text = results[NthFailed(j)].error.text
          /\ report.errors[j].len =
                (IF results[NthFailed(j)].error.len < 100
                 THEN results[NthFailed(j)].error.len ELSE 100)

\* C18: every summary has the failure sample of min(5, failures) entries,
\* the first failed outcomes in order with messages cut to 100 characters,
\* and no sample when nothing failed.
C18_FailureSample == Summarized => SampleAsClaimed

\* what does hold of lines 146-149: a summary that ends without an exception
\* has the sample as claimed
SampleWhenSummaryCompletes == (Summarized /\ report.fault = "none") => SampleAsClaimed

\* C19: completed, len(results) and the number of consumed futures agree
\* after every step, and a step that changes results or completed is an
\* iteration of the collection loop of the main thread: it appends the
\* result of the future it consumed, adds one to completed, and is no step
\* of a worker.
C19_OnlyMainThreadWrites ==
    /\ [](completed = Len(results) /\ Len(results) = Len(collected))
    /\ [][(results' # results \/ completed' # completed) =>
            /\ pc = "collect"
            /\ futures' = futures
            /\ threads' = threads
            /\ completed' = completed + 1
            /\ Len(collected') = Len(collected) + 1
            /\ results' = Append(results, futures[collected'[Len(collected')]].result)]_vars

\* an outcome is collected while another call is still in flight
C19_Witness ==
    /\ pc = "collect"
    /\ completed >= 1
    /\ completed = Len(results)
    /\ InFlight # {}

\* latencies tried in place of the latency of a failed outcome
OtherLatencies == {0, 1, 500, 100000}

\* res with the latency of every failed outcome replaced by l
WithFailedLatency(res, l) ==
    [k \in 1 .. Len(res) |->
        IF res[k].success THEN res[k] ELSE [res[k] EXCEPT !.latency_ms = l]]

\* res with the latency of the outcome at position i replaced by l, if it failed
WithOneFailedLatency(res, i, l) ==
    [k \in 1 .. Len(res) |->
        IF k = i /\ ~res[k].success THEN [res[k] EXCEPT !.latency_ms = l] ELSE res[k]]

\* results lists that differ from res only in latencies of failed outcomes
FailedLatencyVariants(res) ==
    {WithFailedLatency(res, l) : l \in OtherLatencies}
    \cup {WithOneFailedLatency(res, i, l) : i \in 1 .. Len(res), l \in OtherLatencies}

\* the latency section of a report
LatencyStats(rep) ==
    << rep.fault, rep.has_latency, rep.min, rep.max, rep.mean, rep.median,
       rep.has_stdev, rep.stdev_squared, rep.p50, rep.p90, rep.p95, rep.p99 >>

\* v is the latency of a successful outcome of the results list
IsSuccessLatency(v) ==
    \E k \in 1 .. Len(results) : results[k].success /\ results[k].latency_ms = v

\* C20: the latency section printed for the results is the one printed for
\* any list that differs only in latencies of failed outcomes, and the
\* printed min, max and percentiles are latencies of successful outcomes.
C20_SuccessLatenciesOnly ==
    /\ Summarized =>
          \A q \in FailedLatencyVariants(results) :
              LatencyStats(Statistics(q, total_time)) = LatencyStats(report)
    /\ (Summarized /\ report.has_latency) =>
          (IsSuccessLatency(report.min) /\ IsSuccessLatency(report.max))
    /\ PercentilesReported =>
          /\ IsSuccessLatency(report.p50)
          /\ IsSuccessLatency(report.p90)
          /\ IsSuccessLatency(report.p95)
          /\ IsSuccessLatency(report.p99)

\* a failed outcome took longer than every successful one
C20_Witness ==
    /\ PercentilesReported
    /\ report.has_stdev
    /\ \E k \in 1 .. Len(results) :
          ~results[k].success /\ results[k].latency_ms > report.max
====
